---- MODULE Spec2Model ----
(***************************************************************************)
(* The split-and-cache query layer of argument-mining-db (db/queries.py).  *)
(*                                                                         *)
(* The store is the ADU table (id = position, type claim or premise) and   *)
(* the Relationship table.  An ADU object is represented by its id.  A     *)
(* Python call either returns a value or raises: its outcome is the record *)
(* [err |-> "none", val |-> v] or [err |-> <exception name>, val |-> <<>>]. *)
(***************************************************************************)
EXTENDS Integers, Sequences, FiniteSets, TLC

VARIABLES
    adus,           \* ADU table: adus[id] is the type of the ADU with that id
    rels,           \* Relationship table: records [from, to, category]
    CACHE_ENABLED,  \* db/config.py: the configuration toggle
    claims_cache,   \* the file CLAIMS_CACHE_FILE
    data_cache,     \* the file DATA_CACHE_FILE
    ret,            \* the outcome of the last call of an operation
    inflight        \* a claims reader running statement by statement

vars == <<adus, rels, CACHE_ENABLED, claims_cache, data_cache, ret, inflight>>

----------------------------------------------------------------------------
(* Bounds of the model.                                                    *)

\* SplitSpec: the largest number of claims in the store.
MaxTotal == 91
\* PairSpec: the largest number of claims in the store.
MaxPairClaims == 5
\* Spec: the largest number of ADU rows and of Relationship rows.
MaxAdus == 3
MaxRels == 1
\* FileSpec: the largest number of claims in the store.
MaxFileClaims == 2
\* ShardSpec: the largest number of claims in the store, and the largest
\* value of max_per_shard and of num_shards.
MaxShardClaims == 6
MaxShardArg == 2

----------------------------------------------------------------------------
(* Python values.                                                          *)

Ok(v) == [err |-> "none", val |-> v]
Raise(e) == [err |-> e, val |-> <<>>]

SplitNames == {"training", "test", "benchmark"}

\* The two stance categories the import writes.
Stances == {"stance_pro", "stance_con"}

\* relationship_options of _get_data, a Python list (index 0 and 1).
relationship_options == <<"stance_pro", "stance_con">>

----------------------------------------------------------------------------
(* int(total * 0.7) and int(total * 0.9): an IEEE-754 double product,      *)
(* rounded to nearest-even, then truncated.  The doubles 0.7 and 0.9 are   *)
(* m * 2^-53 with a 53-bit m, held here in four base-2^16 limbs, least     *)
(* significant first, so that every intermediate value fits TLC's integers *)
(* for total < 2^10.                                                       *)

Limb == 2^16

\* 0.7 = 6305039478318694 * 2^-53
Mant07 == <<26214, 26214, 26214, 22>>
\* 0.9 = 8106479329266893 * 2^-53
Mant09 == <<52429, 52428, 52428, 28>>

RECURSIVE BitLen(_)
BitLen(n) == IF n = 0 THEN 0 ELSE 1 + BitLen(n \div 2)

\* The exact product n * m as limbs, least significant first: the limbs of m
\* from the i-th on, times n, plus the carry.
RECURSIVE MulLimbs(_, _, _, _)
MulLimbs(n, m, i, carry) ==
    IF i > Len(m) THEN <<carry>>
    ELSE <<(n * m[i] + carry) % Limb>>
         \o MulLimbs(n, m, i + 1, (n * m[i] + carry) \div Limb)

\* The product p is an integer part and 53 fraction bits (5 + 16 + 16 + 16).
IntPart(p) == (p[5] * Limb + p[4]) \div 32

\* A double keeps 53 significant bits: with b integer bits the low b fraction
\* bits are rounded away, to nearest, ties to the even neighbour.
RoundsUp(low, b) ==
    \/ low % (2^b) > 2^(b - 1)
    \/ low % (2^b) = 2^(b - 1) /\ (low \div (2^b)) % 2 = 1

\* The kept fraction bits are all ones: rounding up carries into the integer.
AllOnes(p, b) ==
    /\ p[4] % 32 = 31
    /\ p[3] = Limb - 1
    /\ p[2] = Limb - 1
    /\ p[1] \div (2^b) = 2^(16 - b) - 1

\* int(): the integer part of the rounded product.
Truncated(p, int) ==
    IF int = 0 THEN 0
    ELSE IF RoundsUp(p[1], BitLen(int)) /\ AllOnes(p, BitLen(int)) THEN int + 1
    ELSE int

Rounded(p) == Truncated(p, IntPart(p))

\* int(n * x) for the double x = m * 2^-53 and an integer 0 <= n < 2^10.
IntOfFloatMul(n, m) == Rounded(MulLimbs(n, m, 1, 0))

----------------------------------------------------------------------------
(* Store access.                                                           *)

get_session == [adus |-> adus, rels |-> rels]

Ids(n) == [i \in 1..n |-> i]

IsClaim(session, id) == session.adus[id] = "claim"

\* session.query(ADU).filter(ADU.type == 'claim').order_by(ADU.id)
_make_claims_query(session) ==
    SelectSeq(Ids(Len(session.adus)), LAMBDA id : IsClaim(session, id))

\* q.count()
Count(q) == Len(q)

Min(a, b) == IF a < b THEN a ELSE b

\* q.limit(n).all(); a negative LIMIT is rejected by the database.
Limit(q, n) ==
    IF n < 0 THEN Raise("DatabaseError")
    ELSE Ok(SubSeq(q, 1, Min(n, Len(q))))

\* q.offset(k).all()
Offset(q, k) ==
    IF k < 0 THEN Raise("DatabaseError")
    ELSE Ok(SubSeq(q, k + 1, Len(q)))

\* q.offset(k).limit(n).all()
OffsetLimit(q, k, n) ==
    IF k < 0 \/ n < 0 THEN Raise("DatabaseError")
    ELSE Ok(SubSeq(q, k + 1, Min(k + n, Len(q))))

----------------------------------------------------------------------------
(* _get_claims(session, <kw>=<v>): the function takes the one keyword      *)
(* argument `split`; a call with another keyword raises TypeError.         *)

\* The first boundary of the two-way 80/20 revision.
training_split_80(total) == (total * 8) \div 10

training_split(total) == IntOfFloatMul(total, Mant07)
test_split(total) == IntOfFloatMul(total, Mant09)

\* The test branch limited by the second boundary itself.
Slice_NoSubtract(q, split, training_end, test_end) ==
    IF split = "training" THEN Limit(q, training_end)
    ELSE IF split = "test" THEN OffsetLimit(q, training_end, test_end)
    ELSE IF split = "benchmark" THEN Offset(q, test_end)
    ELSE Raise("ValueError")

\* The three branches of _get_claims, the two boundaries computed.
Slice(q, split, training_end, test_end) ==
    IF split = "training" THEN Limit(q, training_end)
    ELSE IF split = "test" THEN OffsetLimit(q, training_end, test_end - training_end)
    ELSE IF split = "benchmark" THEN Offset(q, test_end)
    ELSE Raise("ValueError")

SelectSplit(q, split) ==
    Slice(q, split, training_split(Count(q)), test_split(Count(q)))

_get_claims(session, kw, v) ==
    IF kw # "split" THEN Raise("TypeError")
    ELSE SelectSplit(_make_claims_query(session), v)

----------------------------------------------------------------------------
(* _get_data: the premise rows of the split's claims, fetched in an order  *)
(* the query does not fix (no ORDER BY), grouped by claim, one premise     *)
(* chosen per claim.  A row is <<premise, category, claim_id>>.            *)

\* The join without the filter on the premise type.
MatchingRels_AnySource(session, cid) ==
    {r \in DOMAIN session.rels :
        /\ session.rels[r].from \in DOMAIN session.adus
        /\ session.rels[r].to = cid}

\* The join of ADU and Relationship, filtered on the premise type and on the
\* target claim: the ids of the Relationship rows the query yields for `cid`.
MatchingRels(session, cid) ==
    {r \in DOMAIN session.rels :
        /\ session.rels[r].from \in DOMAIN session.adus
        /\ session.adus[session.rels[r].from] = "premise"
        /\ session.rels[r].to = cid}

RowOf(session, r) ==
    <<session.rels[r].from, session.rels[r].category, session.rels[r].to>>

\* Every order of the elements of S.
Perms(S) ==
    {f \in [1..Cardinality(S) -> S] :
        \A i, j \in 1..Cardinality(S) : i # j => f[i] # f[j]}

\* The orders in which .all() may yield the rows of the claims ids[k..].  The
\* rows are regrouped by claim id before use, so an order matters only through
\* the relative order of the rows of each claim: one order is listed for each
\* combination of per-claim orders, the claims taken in the order of `ids`.
RECURSIVE FetchOrdersFrom(_, _, _)
FetchOrdersFrom(session, ids, k) ==
    IF k > Len(ids) THEN {<<>>}
    ELSE {[i \in DOMAIN p |-> RowOf(session, p[i])] \o rest :
             p \in Perms(MatchingRels(session, ids[k])),
             rest \in FetchOrdersFrom(session, ids, k + 1)}

FetchFor(session, initial_claims) ==
    IF initial_claims.err # "none" THEN {<<>>}
    ELSE FetchOrdersFrom(session, initial_claims.val, 1)

\* The row sequences the query of a call _get_data(session, <kw>=<v>) may yield.
Fetch(session, kw, v) == FetchFor(session, _get_claims(session, kw, v))

\* grouped_premises_by_claim_id[cid]: the (premise, category) pairs of the
\* rows of claim cid, in fetch order; empty when cid is no key of the dict.
Grouped(rows, cid) ==
    LET mine == SelectSeq(rows, LAMBDA row : row[3] = cid)
    IN  [i \in DOMAIN mine |-> <<mine[i][1], mine[i][2]>>]

\* The stance indexed by the count of the claims emitted before this one.
DesiredStance_ZeroBased(output_claims) ==
    relationship_options[((Len(output_claims) - 1) % 2) + 1]

\* relationship_options[len(output_claims) % 2], output_claims holding the
\* current claim already.
DesiredStance(output_claims) ==
    relationship_options[(Len(output_claims) % 2) + 1]

\* Always the first pair of the list.
ChosenPremise_First(current_claim_premises_list, desired_stance) ==
    current_claim_premises_list[1]

\* The fallback taking the last pair of the list.
ChosenPremise_FallbackLast(current_claim_premises_list, desired_stance) ==
    LET wanted == SelectSeq(current_claim_premises_list,
                            LAMBDA t : t[2] = desired_stance)
    IN  IF wanted # <<>> THEN wanted[1]
        ELSE current_claim_premises_list[Len(current_claim_premises_list)]

\* The desired stance recorded in place of the category of the chosen pair.
ChosenPremise_DesiredCategory(current_claim_premises_list, desired_stance) ==
    LET wanted == SelectSeq(current_claim_premises_list,
                            LAMBDA t : t[2] = desired_stance)
    IN  IF wanted # <<>> THEN wanted[1]
        ELSE <<current_claim_premises_list[1][1], desired_stance>>

\* next(... if cat == desired_stance), else the first pair of the list.
ChosenPremise(current_claim_premises_list, desired_stance) ==
    LET wanted == SelectSeq(current_claim_premises_list,
                            LAMBDA t : t[2] = desired_stance)
    IN  IF wanted # <<>> THEN wanted[1] ELSE current_claim_premises_list[1]

NoOutput == [claims |-> <<>>, premises |-> <<>>, categories |-> <<>>]

\* The three appends of one iteration.
Emitted(out, claim_obj, chosen_premise_tuple) ==
    [claims     |-> Append(out.claims, claim_obj),
     premises   |-> Append(out.premises, chosen_premise_tuple[1]),
     categories |-> Append(out.categories, chosen_premise_tuple[2])]

\* A claim without rows kept in the claims and given no premise.
Emit_KeepPremiseless(out, claim_obj, current_claim_premises_list) ==
    IF current_claim_premises_list = <<>>
    THEN [out EXCEPT !.claims = Append(@, claim_obj)]
    ELSE Emitted(out, claim_obj,
                 ChosenPremise(current_claim_premises_list,
                               DesiredStance(Append(out.claims, claim_obj))))

\* `if claim_obj.id in grouped_premises_by_claim_id`: the claim is emitted
\* when it has rows, and skipped otherwise.
Emit(out, claim_obj, current_claim_premises_list) ==
    IF current_claim_premises_list = <<>> THEN out
    ELSE Emitted(out, claim_obj,
                 ChosenPremise(current_claim_premises_list,
                               DesiredStance(Append(out.claims, claim_obj))))

\* One iteration of the loop over initial_claims.
PairStep(out, claim_obj, rows) == Emit(out, claim_obj, Grouped(rows, claim_obj))

RECURSIVE PairLoop(_, _, _, _)
PairLoop(initial_claims, rows, i, out) ==
    IF i > Len(initial_claims) THEN out
    ELSE PairLoop(initial_claims, rows, i + 1,
                  PairStep(out, initial_claims[i], rows))

Paired(initial_claims, rows) ==
    IF initial_claims.err # "none" THEN initial_claims
    ELSE Ok(PairLoop(initial_claims.val, rows, 1, NoOutput))

\* _get_data(session, <kw>=<v>) when its premise query yields `rows`.
_get_data(session, kw, v, rows) ==
    IF kw # "split" THEN Raise("TypeError")
    ELSE Paired(_get_claims(session, "split", v), rows)

----------------------------------------------------------------------------
(* The cache files.  A file holds a pickled dict, a record here; its keys  *)
(* are the DOMAIN of the record.                                           *)

NoFile == [exists |-> FALSE]
File(obj) == [exists |-> TRUE, valid |-> TRUE, obj |-> obj]

\* The file as open(file_path, 'wb') leaves it before pickle.dump has written
\* all of the data: it is there and does not unpickle.
Truncated_File == [exists |-> TRUE, valid |-> FALSE]

\* What _load_cache hands to its caller: None, a dict, or (err) an exception
\* that left it.
None == [err |-> "none", isNone |-> TRUE]
Loaded(obj) == [err |-> "none", isNone |-> FALSE, dict |-> obj]

\* pickle.load(f)
Unpickle(file) ==
    IF file.valid THEN Ok(file.obj) ELSE Raise("UnpicklingError")

\* The load without the try/except: the exception of pickle.load leaves it.
_load_cache_NoExcept(file) ==
    IF ~file.exists THEN None
    ELSE IF Unpickle(file).err # "none"
    THEN [err |-> Unpickle(file).err, isNone |-> TRUE]
    ELSE Loaded(Unpickle(file).val)

\* The dict of the file; None when the file is missing, and None when
\* pickle.load raises (`except Exception: pass`).
_load_cache(file) ==
    IF ~file.exists THEN None
    ELSE IF Unpickle(file).err # "none" THEN None
    ELSE Loaded(Unpickle(file).val)

\* open(file_path, 'wb'); pickle.dump(data, f): the new content of the file.
_save_cache(data) == File(data)

\* `if cache`: neither None nor an empty dict.
Truthy(cache) == ~cache.isNone /\ DOMAIN cache.dict # {}

\* cache.get(key) == value
GetEquals(cache, key, value) ==
    key \in DOMAIN cache.dict /\ cache.dict[key] = value

\* cache[key]
Subscript(cache, key) ==
    IF key \in DOMAIN cache.dict THEN Ok(cache.dict[key]) ELSE Raise("KeyError")

\* The first exception of a sequence of outcomes, as Python raises it.
RECURSIVE FirstError(_)
FirstError(outcomes) ==
    IF outcomes = <<>> THEN Ok(<<>>)
    ELSE IF Head(outcomes).err # "none" THEN Head(outcomes)
    ELSE FirstError(Tail(outcomes))

----------------------------------------------------------------------------
(* The public read operations.  `ret` is the outcome of the call just made, *)
(* with what the call met: whether it was served from the cache file       *)
(* (hit), whether it found a file tagged with another count (stale), and   *)
(* the premise rows fetched for the returned split.  An insertion into the *)
(* store returns nothing and clears it, so `ret` is always an outcome on   *)
(* the store as it is.                                                     *)

\* No reader is running statement by statement.
Idle == [pc |-> "idle"]

NoCall ==
    [op |-> "none", arg |-> "none", err |-> "none", val |-> <<>>, rows |-> <<>>,
     hit |-> FALSE, stale |-> FALSE, found |-> "none"]

\* What a read met at its cache file: a file tagged with another count
\* (stale), and the file absent, corrupt or holding a dict (found).
NotRead == [stale |-> FALSE, found |-> "none"]

Result(op, arg, outcome, rows, hit, met) ==
    [op |-> op, arg |-> arg, err |-> outcome.err, val |-> outcome.val,
     rows |-> rows, hit |-> hit, stale |-> met.stale, found |-> met.found]

\* session.query(ADU).filter(ADU.type == 'claim').count()
count_claims(session) ==
    Cardinality({id \in DOMAIN session.adus : IsClaim(session, id)})

\* The cache test without the comparison of the token.
CacheFresh_AnyToken(cache, token, total, split, checks_key) ==
    /\ Truthy(cache)
    /\ checks_key => split \in DOMAIN cache.dict

\* The cache test of a read: `cache and cache.get(token) == total`, and for
\* the benchmark readers also `'benchmark' in cache`.
CacheFresh(cache, token, total, split, checks_key) ==
    /\ Truthy(cache)
    /\ GetEquals(cache, token, total)
    /\ checks_key => split \in DOMAIN cache.dict

\* A file is there, unpickles, and is tagged with another count than `total`.
StaleToken(cache, token, total) ==
    /\ ~cache.isNone
    /\ token \in DOMAIN cache.dict
    /\ cache.dict[token] # total

Met(file, cache, token, total) ==
    [stale |-> StaleToken(cache, token, total),
     found |-> IF ~file.exists THEN "absent"
               ELSE IF cache.isNone THEN "corrupt"
               ELSE "dict"]

\* The split a reader returns from the three it computed.
Pick(split, training, test_, benchmark) ==
    IF split = "training" THEN training
    ELSE IF split = "test" THEN test_
    ELSE benchmark

\* The miss that saves the requested split only.
ClaimsMiss_OnlyRequested(op, split, total, met, training, test_, benchmark) ==
    [ret  |-> Result(op, split, Pick(split, training, test_, benchmark),
                     <<>>, FALSE, met),
     file |-> _save_cache((split :> Pick(split, training, test_, benchmark).val)
                          @@ [total |-> total])]

\* A claims reader on a miss, the three splits computed: save and return.
ClaimsMiss(op, split, total, met, training, test_, benchmark) ==
    IF FirstError(<<training, test_, benchmark>>).err # "none"
    THEN [ret  |-> Result(op, split, FirstError(<<training, test_, benchmark>>),
                          <<>>, FALSE, met),
          file |-> claims_cache]
    ELSE [ret  |-> Result(op, split, Pick(split, training, test_, benchmark),
                          <<>>, FALSE, met),
          file |-> _save_cache([total     |-> total,
                                training  |-> training.val,
                                test      |-> test_.val,
                                benchmark |-> benchmark.val])]

\* A claims reader with the cache enabled, the count and the file read.
ClaimsCached(op, split, checks_key, session, total, cache) ==
    IF cache.err # "none"
    THEN [ret  |-> Result(op, split, Raise(cache.err), <<>>, FALSE,
                          Met(claims_cache, cache, "total", total)),
          file |-> claims_cache]
    ELSE IF CacheFresh(cache, "total", total, split, checks_key)
    THEN [ret  |-> Result(op, split, Subscript(cache, split), <<>>, TRUE,
                          Met(claims_cache, cache, "total", total)),
          file |-> claims_cache]
    ELSE ClaimsMiss(op, split, total, Met(claims_cache, cache, "total", total),
                    _get_claims(session, "split", "training"),
                    _get_claims(session, "split", "test"),
                    _get_claims(session, "split", "benchmark"))

\* The body of get_training_claims, get_test_claims and get_benchmark_claims,
\* which differ in the keyword of the uncached call (kw, v), in the split they
\* return and in the extra key test of the benchmark reader: the outcome of
\* the call and the content of CLAIMS_CACHE_FILE after it.
ClaimsRead(op, kw, v, split, checks_key) ==
    IF ~CACHE_ENABLED
    THEN [ret  |-> Result(op, split, _get_claims(get_session, kw, v),
                          <<>>, FALSE, NotRead),
          file |-> claims_cache]
    ELSE ClaimsCached(op, split, checks_key, get_session,
                      count_claims(get_session), _load_cache(claims_cache))

get_training_claims ==
    \E call \in {ClaimsRead("get_training_claims", "training", TRUE, "training", FALSE)} :
        /\ ret' = call.ret
        /\ claims_cache' = call.file
        /\ UNCHANGED <<adus, rels, CACHE_ENABLED, data_cache, inflight>>

get_test_claims ==
    \E call \in {ClaimsRead("get_test_claims", "training", FALSE, "test", FALSE)} :
        /\ ret' = call.ret
        /\ claims_cache' = call.file
        /\ UNCHANGED <<adus, rels, CACHE_ENABLED, data_cache, inflight>>

get_benchmark_claims ==
    \E call \in {ClaimsRead("get_benchmark_claims", "split", "benchmark", "benchmark", TRUE)} :
        /\ ret' = call.ret
        /\ claims_cache' = call.file
        /\ UNCHANGED <<adus, rels, CACHE_ENABLED, data_cache, inflight>>

DataToken == "db_total_claims_when_cached"

\* A data reader on a miss, the three splits computed from the fetched rows
\* (rows[1], rows[2], rows[3]): save and return.
DataMiss(op, split, total, met, rows, train_, test_, benchmark_) ==
    IF FirstError(<<train_, test_, benchmark_>>).err # "none"
    THEN [ret  |-> Result(op, split, FirstError(<<train_, test_, benchmark_>>),
                          <<>>, FALSE, met),
          file |-> data_cache]
    ELSE [ret  |-> Result(op, split, Pick(split, train_, test_, benchmark_),
                          Pick(split, rows[1], rows[2], rows[3]), FALSE, met),
          file |-> _save_cache([db_total_claims_when_cached |-> total,
                                training  |-> train_.val,
                                test      |-> test_.val,
                                benchmark |-> benchmark_.val])]

\* A data reader with the cache enabled, the count and the file read: the set
\* of its possible results, one for each order the three premise queries may
\* fetch their rows in.
DataCached(op, split, checks_key, session, total, cache) ==
    IF cache.err # "none"
    THEN {[ret  |-> Result(op, split, Raise(cache.err), <<>>, FALSE,
                           Met(data_cache, cache, DataToken, total)),
           file |-> data_cache]}
    ELSE IF CacheFresh(cache, DataToken, total, split, checks_key)
    THEN {[ret  |-> Result(op, split, Subscript(cache, split), <<>>, TRUE,
                           Met(data_cache, cache, DataToken, total)),
           file |-> data_cache]}
    ELSE {DataMiss(op, split, total, Met(data_cache, cache, DataToken, total), rows,
                   _get_data(session, "split", "training", rows[1]),
                   _get_data(session, "split", "test", rows[2]),
                   _get_data(session, "split", "benchmark", rows[3])) :
             rows \in Fetch(session, "split", "training")
                      \X Fetch(session, "split", "test")
                      \X Fetch(session, "split", "benchmark")}

\* The body of get_training_data, get_test_data and get_benchmark_data.
DataRead(op, kw, v, split, checks_key) ==
    IF ~CACHE_ENABLED
    THEN {[ret  |-> Result(op, split, _get_data(get_session, kw, v, rows),
                           rows, FALSE, NotRead),
           file |-> data_cache] : rows \in Fetch(get_session, kw, v)}
    ELSE DataCached(op, split, checks_key, get_session,
                    count_claims(get_session), _load_cache(data_cache))

get_training_data ==
    \E call \in DataRead("get_training_data", "training", TRUE, "training", FALSE) :
        /\ ret' = call.ret
        /\ data_cache' = call.file
        /\ UNCHANGED <<adus, rels, CACHE_ENABLED, claims_cache, inflight>>

\* The reader saving into the file of the claims readers.
get_test_data_WrongFile ==
    \E call \in DataRead("get_test_data", "training", FALSE, "test", FALSE) :
        /\ ret' = call.ret
        /\ claims_cache' = call.file
        /\ UNCHANGED <<adus, rels, CACHE_ENABLED, data_cache, inflight>>

get_test_data ==
    \E call \in DataRead("get_test_data", "training", FALSE, "test", FALSE) :
        /\ ret' = call.ret
        /\ data_cache' = call.file
        /\ UNCHANGED <<adus, rels, CACHE_ENABLED, claims_cache, inflight>>

get_benchmark_data ==
    \E call \in DataRead("get_benchmark_data", "split", "benchmark", "benchmark", TRUE) :
        /\ ret' = call.ret
        /\ data_cache' = call.file
        /\ UNCHANGED <<adus, rels, CACHE_ENABLED, claims_cache, inflight>>

\* A read killed inside _save_cache, after open(file_path, 'wb') and before
\* pickle.dump has written the data: the file is left truncated and the call
\* returns nothing.  A read gets there on a miss only.
KilledInSave_claims ==
    /\ CACHE_ENABLED
    /\ ~CacheFresh(_load_cache(claims_cache), "total", count_claims(get_session),
                   "benchmark", TRUE)
    /\ claims_cache' = Truncated_File
    /\ ret' = NoCall
    /\ UNCHANGED <<adus, rels, CACHE_ENABLED, data_cache, inflight>>

KilledInSave_data ==
    /\ CACHE_ENABLED
    /\ ~CacheFresh(_load_cache(data_cache), DataToken, count_claims(get_session),
                   "benchmark", TRUE)
    /\ data_cache' = Truncated_File
    /\ ret' = NoCall
    /\ UNCHANGED <<adus, rels, CACHE_ENABLED, claims_cache, inflight>>

----------------------------------------------------------------------------
(* get_sharded_training_data(max_per_shard, num_shards): the training data *)
(* cut into num_shards runs of max_per_shard rows.                         *)

\* seq[start:end] of Python, for 0 <= start <= end.
PySlice(seq, start, end) == SubSeq(seq, start + 1, Min(end, Len(seq)))

\* (claims[start:end], premises[start:end], categories[start:end])
Shard(data, start, end) ==
    [claims     |-> PySlice(data.claims, start, end),
     premises   |-> PySlice(data.premises, start, end),
     categories |-> PySlice(data.categories, start, end)]

\* The loop `for i in range(num_shards)`, i counted from 1 here.
Shards(data, max_per_shard, num_shards) ==
    [i \in 1..num_shards |->
        Shard(data, (i - 1) * max_per_shard,
              (i - 1) * max_per_shard + max_per_shard)]

\* The function after the call of get_training_data, whose outcome is
\* `training`: an exception of the call propagates.
Sharded(training, max_per_shard, num_shards) ==
    IF training.err # "none" THEN Raise(training.err)
    ELSE IF Len(training.val.claims) < max_per_shard * num_shards
    THEN Raise("ValueError")
    ELSE Ok(Shards(training.val, max_per_shard, num_shards))

ShardArgs(max_per_shard, num_shards) ==
    [max_per_shard |-> max_per_shard, num_shards |-> num_shards]

get_sharded_training_data(max_per_shard, num_shards) ==
    IF max_per_shard <= 0 \/ num_shards <= 0
    THEN /\ ret' = Result("get_sharded_training_data",
                          ShardArgs(max_per_shard, num_shards),
                          Raise("ValueError"), <<>>, FALSE, NotRead)
         /\ UNCHANGED <<adus, rels, CACHE_ENABLED, claims_cache, data_cache, inflight>>
    ELSE \E call \in DataRead("get_training_data", "training", TRUE, "training", FALSE) :
             /\ ret' = Result("get_sharded_training_data",
                              ShardArgs(max_per_shard, num_shards),
                              Sharded(call.ret, max_per_shard, num_shards),
                              call.ret.rows, call.ret.hit,
                              [stale |-> call.ret.stale, found |-> call.ret.found])
             /\ data_cache' = call.file
             /\ UNCHANGED <<adus, rels, CACHE_ENABLED, claims_cache, inflight>>

----------------------------------------------------------------------------
(* Ingestion: the import scripts add ADU rows and Relationship rows; ids   *)
(* are assigned in insertion order and nothing is updated or deleted.      *)

InsertADU(type) ==
    /\ Len(adus) < MaxAdus
    /\ adus' = Append(adus, type)
    /\ ret' = NoCall
    /\ UNCHANGED <<rels, CACHE_ENABLED, claims_cache, data_cache, inflight>>

\* A relationship links a premise to the claim it argues about.
InsertRelationship(from, to, category) ==
    /\ Len(rels) < MaxRels
    /\ from \in DOMAIN adus
    /\ adus[from] = "premise"
    /\ to \in DOMAIN adus
    /\ adus[to] = "claim"
    /\ rels' = Append(rels, [from |-> from, to |-> to, category |-> category])
    /\ ret' = NoCall
    /\ UNCHANGED <<adus, CACHE_ENABLED, claims_cache, data_cache, inflight>>

----------------------------------------------------------------------------
(* A claims reader run statement by statement, so that insertions, other   *)
(* readers and a kill of the process fall between its statements.  Each    *)
(* query of the reader sees the rows committed when it runs, or, when the  *)
(* database gives the session's transaction a repeatable-read snapshot,    *)
(* the rows committed at the first query of the call: the code sets no     *)
(* isolation level and the database is whatever DB_URI names.              *)

\* The three claims readers: name, keyword and value of the uncached call,
\* split returned, and whether the cache test looks for the split's key.
ClaimsReaderArgs ==
    { <<"get_training_claims", "training", TRUE, "training", FALSE>>,
      <<"get_test_claims", "training", FALSE, "test", FALSE>>,
      <<"get_benchmark_claims", "split", "benchmark", "benchmark", TRUE>> }

NoSnapshot == [taken |-> FALSE]
Seen(session) == [taken |-> TRUE, adus |-> session.adus, rels |-> session.rels]

Started(r, repeatable) ==
    [pc |-> IF CACHE_ENABLED THEN "count" ELSE "uncached",
     op |-> r[1], kw |-> r[2], v |-> r[3], split |-> r[4], checks_key |-> r[5],
     repeatable |-> repeatable, session |-> NoSnapshot,
     total |-> 0, met |-> NotRead, count |-> 0, computing |-> "none",
     training |-> <<>>, test |-> <<>>, benchmark |-> <<>>]

\* The rows a query of the running reader sees, and the snapshot its session
\* holds after the query.
QuerySession ==
    IF inflight.repeatable /\ inflight.session.taken
    THEN [adus |-> inflight.session.adus, rels |-> inflight.session.rels]
    ELSE get_session

AfterQuery ==
    IF inflight.repeatable THEN Seen(QuerySession) ELSE NoSnapshot

\* `with get_session() as session:` of a reader called.
call_claims_reader ==
    /\ inflight.pc = "idle"
    /\ \E r \in ClaimsReaderArgs, repeatable \in BOOLEAN :
           inflight' = Started(r, repeatable)
    /\ UNCHANGED <<adus, rels, CACHE_ENABLED, claims_cache, data_cache, ret>>

\* `if not CACHE_ENABLED: return _get_claims(session, <kw>=<v>)`: the call
\* fails on its keyword, or _get_claims starts.
step_uncached ==
    /\ inflight.pc = "uncached"
    /\ IF inflight.kw # "split"
       THEN /\ ret' = Result(inflight.op, inflight.split, Raise("TypeError"),
                             <<>>, FALSE, NotRead)
            /\ inflight' = Idle
       ELSE /\ inflight' = [inflight EXCEPT !.pc = "q_count", !.computing = inflight.v]
            /\ ret' = ret
    /\ UNCHANGED <<adus, rels, CACHE_ENABLED, claims_cache, data_cache>>

\* total = session.query(ADU).filter(ADU.type == 'claim').count()
step_count ==
    /\ inflight.pc = "count"
    /\ inflight' = [inflight EXCEPT !.pc = "load",
                                    !.total = count_claims(QuerySession),
                                    !.session = AfterQuery]
    /\ UNCHANGED <<adus, rels, CACHE_ENABLED, claims_cache, data_cache, ret>>

\* cache = _load_cache(CLAIMS_CACHE_FILE) and the cache test: a hit returns
\* cache[split], a miss goes on to compute the three splits.
Step_load(cache) ==
    IF CacheFresh(cache, "total", inflight.total, inflight.split, inflight.checks_key)
    THEN /\ ret' = Result(inflight.op, inflight.split,
                          Subscript(cache, inflight.split), <<>>, TRUE,
                          Met(claims_cache, cache, "total", inflight.total))
         /\ inflight' = Idle
    ELSE /\ inflight' = [inflight EXCEPT
                            !.pc = "q_count", !.computing = "training",
                            !.met = Met(claims_cache, cache, "total", inflight.total)]
         /\ ret' = ret

step_load ==
    /\ inflight.pc = "load"
    /\ Step_load(_load_cache(claims_cache))
    /\ UNCHANGED <<adus, rels, CACHE_ENABLED, claims_cache, data_cache>>

\* _get_claims: total = q.count(), and the two boundaries from it.
step_q_count ==
    /\ inflight.pc = "q_count"
    /\ inflight' = [inflight EXCEPT
                       !.pc = "q_all",
                       !.count = Count(_make_claims_query(QuerySession)),
                       !.session = AfterQuery]
    /\ UNCHANGED <<adus, rels, CACHE_ENABLED, claims_cache, data_cache, ret>>

\* The split after the one just computed, the save after the last.
NextPc(computing) == IF computing = "benchmark" THEN "save_open" ELSE "q_count"
NextSplit(computing) == IF computing = "training" THEN "test" ELSE "benchmark"

\* _get_claims: the query of the split, `fetched` its outcome.  The uncached
\* call returns it; the cached one keeps it and goes on.
Step_q_all(fetched) ==
    IF ~CACHE_ENABLED
    THEN /\ ret' = Result(inflight.op, inflight.split, fetched, <<>>, FALSE, NotRead)
         /\ inflight' = Idle
    ELSE /\ inflight' = [inflight EXCEPT
                            !.pc = NextPc(inflight.computing),
                            !.computing = NextSplit(inflight.computing),
                            ![inflight.computing] = fetched.val,
                            !.session = AfterQuery]
         /\ ret' = ret

step_q_all ==
    /\ inflight.pc = "q_all"
    /\ Step_q_all(Slice(_make_claims_query(QuerySession), inflight.computing,
                        training_split(inflight.count), test_split(inflight.count)))
    /\ UNCHANGED <<adus, rels, CACHE_ENABLED, claims_cache, data_cache>>

\* _save_cache: open(file_path, 'wb') truncates the file.
step_open ==
    /\ inflight.pc = "save_open"
    /\ claims_cache' = Truncated_File
    /\ inflight' = [inflight EXCEPT !.pc = "save_dump"]
    /\ UNCHANGED <<adus, rels, CACHE_ENABLED, data_cache, ret>>

\* _save_cache: pickle.dump writes the dict and the file is closed; the
\* reader returns the split it was asked for.
step_dump ==
    /\ inflight.pc = "save_dump"
    /\ claims_cache' = _save_cache([total     |-> inflight.total,
                                    training  |-> inflight.training,
                                    test      |-> inflight.test,
                                    benchmark |-> inflight.benchmark])
    /\ ret' = Result(inflight.op, inflight.split,
                     Ok(Pick(inflight.split, inflight.training, inflight.test,
                             inflight.benchmark)),
                     <<>>, FALSE, inflight.met)
    /\ inflight' = Idle
    /\ UNCHANGED <<adus, rels, CACHE_ENABLED, data_cache>>

\* The process of the running reader is killed: the call returns nothing.
killed ==
    /\ inflight.pc # "idle"
    /\ inflight' = Idle
    /\ UNCHANGED <<adus, rels, CACHE_ENABLED, claims_cache, data_cache, ret>>

----------------------------------------------------------------------------
(* Spec: an empty store that grows, read through the six operations.       *)

Init ==
    /\ adus = <<>>
    /\ rels = <<>>
    /\ CACHE_ENABLED \in BOOLEAN
    /\ claims_cache = NoFile
    /\ data_cache = NoFile
    /\ ret = NoCall
    /\ inflight = Idle

Next ==
    \/ \E type \in {"claim", "premise"} : InsertADU(type)
    \/ \E from \in 1..MaxAdus, to \in 1..MaxAdus, category \in Stances :
           InsertRelationship(from, to, category)
    \/ get_training_claims
    \/ get_test_claims
    \/ get_benchmark_claims
    \/ get_training_data
    \/ get_test_data
    \/ get_benchmark_data
    \/ KilledInSave_claims
    \/ KilledInSave_data

Spec == Init /\ [][Next]_vars

----------------------------------------------------------------------------
(* SplitSpec: a store of any number of claims up to MaxTotal, with or      *)
(* without a premise row ahead of them, read through the claims readers.   *)

SplitInit ==
    /\ \E lead \in 0..1, total \in 0..MaxTotal :
           adus = [id \in 1..(lead + total) |->
                       IF id <= lead THEN "premise" ELSE "claim"]
    /\ rels = <<>>
    /\ CACHE_ENABLED \in BOOLEAN
    /\ claims_cache = NoFile
    /\ data_cache = NoFile
    /\ ret = NoCall
    /\ inflight = Idle

SplitNext ==
    \/ get_training_claims
    \/ get_test_claims
    \/ get_benchmark_claims

SplitSpec == SplitInit /\ [][SplitNext]_vars

----------------------------------------------------------------------------
(* PairSpec: a store as the import leaves it, one argument after another,  *)
(* on which _get_data is called for each split.  An argument is a claim    *)
(* with its premises: the premise rows come first, then the claim row,     *)
(* and one relationship per premise.  The entry "self" stands for a        *)
(* premise whose text is the claim's own, which the import's text-to-id    *)
(* map resolves to the claim row: a relationship from the claim to itself  *)
(* and no premise row.                                                     *)

Profiles ==
    { <<>>,
      <<"stance_pro">>,
      <<"stance_pro", "stance_con">>,
      <<"support", "stance_con">>,
      <<"self">> }

PremiseEntries(profile) == SelectSeq(profile, LAMBDA e : e # "self")

\* The store with one more argument: its premises, its claim, its relationships.
AddArgument(store, profile, claim_id) ==
    [adus |-> store.adus
              \o [i \in DOMAIN PremiseEntries(profile) |-> "premise"]
              \o <<"claim">>,
     rels |-> store.rels
              \o [i \in DOMAIN profile |->
                    IF profile[i] = "self"
                    THEN [from |-> claim_id, to |-> claim_id,
                          category |-> "stance_pro"]
                    ELSE [from |-> Len(store.adus)
                                   + Len(PremiseEntries(SubSeq(profile, 1, i))),
                          to |-> claim_id, category |-> profile[i]]]]

RECURSIVE Imported(_, _)
Imported(profiles, store) ==
    IF profiles = <<>> THEN store
    ELSE Imported(Tail(profiles),
                  AddArgument(store, Head(profiles),
                              Len(store.adus) + Len(PremiseEntries(Head(profiles))) + 1))

PairInit ==
    /\ \E n \in 0..MaxPairClaims :
       \E profiles \in [1..n -> Profiles] :
           /\ adus = Imported(profiles, [adus |-> <<>>, rels |-> <<>>]).adus
           /\ rels = Imported(profiles, [adus |-> <<>>, rels |-> <<>>]).rels
    /\ CACHE_ENABLED = TRUE
    /\ claims_cache = NoFile
    /\ data_cache = NoFile
    /\ ret = NoCall
    /\ inflight = Idle

\* A call _get_data(session, split=split).
call_get_data(split) ==
    /\ \E rows \in Fetch(get_session, "split", split) :
           ret' = Result("_get_data", split,
                         _get_data(get_session, "split", split, rows),
                         rows, FALSE, NotRead)
    /\ UNCHANGED <<adus, rels, CACHE_ENABLED, claims_cache, data_cache, inflight>>

PairNext == \E split \in SplitNames : call_get_data(split)

PairSpec == PairInit /\ [][PairNext]_vars

----------------------------------------------------------------------------
(* ShardSpec: an imported store, the cache enabled or not, on which        *)
(* get_sharded_training_data is called with arguments of either sign.      *)

ShardProfiles ==
    { <<>>,
      <<"stance_pro">>,
      <<"stance_pro", "stance_con">> }

ShardInit ==
    /\ \E n \in 0..MaxShardClaims :
       \E profiles \in [1..n -> ShardProfiles] :
           /\ adus = Imported(profiles, [adus |-> <<>>, rels |-> <<>>]).adus
           /\ rels = Imported(profiles, [adus |-> <<>>, rels |-> <<>>]).rels
    /\ CACHE_ENABLED \in BOOLEAN
    /\ claims_cache = NoFile
    /\ data_cache = NoFile
    /\ ret = NoCall
    /\ inflight = Idle

ShardNext ==
    \E max_per_shard \in -1..MaxShardArg, num_shards \in -1..MaxShardArg :
        get_sharded_training_data(max_per_shard, num_shards)

ShardSpec == ShardInit /\ [][ShardNext]_vars

----------------------------------------------------------------------------
(* StepSpec: claims are inserted while a claims reader runs statement by   *)
(* statement and the other calls of the claims readers run in between.     *)

StepInit ==
    /\ adus = <<>>
    /\ rels = <<>>
    /\ CACHE_ENABLED \in BOOLEAN
    /\ claims_cache = NoFile
    /\ data_cache = NoFile
    /\ ret = NoCall
    /\ inflight = Idle

StepNext ==
    \/ InsertADU("claim")
    \/ call_claims_reader
    \/ step_uncached
    \/ step_count
    \/ step_load
    \/ step_q_count
    \/ step_q_all
    \/ step_open
    \/ step_dump
    \/ killed
    \/ get_training_claims
    \/ get_test_claims
    \/ get_benchmark_claims

StepSpec == StepInit /\ [][StepNext]_vars

----------------------------------------------------------------------------
(* FileSpec: an imported store whose cache directory holds files left by   *)
(* another revision of the module (the two-way revision saved no           *)
(* 'benchmark'): a dict with the token of the live count and some of the   *)
(* three splits.                                                           *)

DataReaderArgs ==
    { <<"get_training_data", "training", TRUE, "training", FALSE>>,
      <<"get_test_data", "training", FALSE, "test", FALSE>>,
      <<"get_benchmark_data", "split", "benchmark", "benchmark", TRUE>> }

\* The dict a claims reader saves for the store `session`.
ClaimsDict(session) ==
    [total     |-> count_claims(session),
     training  |-> _get_claims(session, "split", "training").val,
     test      |-> _get_claims(session, "split", "test").val,
     benchmark |-> _get_claims(session, "split", "benchmark").val]

\* The dicts a data reader may save for the store `session`, one for each
\* order its queries may fetch their rows in.
DataDicts(session) ==
    {[db_total_claims_when_cached |-> count_claims(session),
      training  |-> _get_data(session, "split", "training", rows[1]).val,
      test      |-> _get_data(session, "split", "test", rows[2]).val,
      benchmark |-> _get_data(session, "split", "benchmark", rows[3]).val] :
        rows \in Fetch(session, "split", "training")
                 \X Fetch(session, "split", "test")
                 \X Fetch(session, "split", "benchmark")}

\* The file that holds the token and the splits `keys` of a dict.
FileWithKeys(dict, token, keys) ==
    File([k \in keys \cup {token} |-> dict[k]])

FileInit ==
    /\ \E n \in 0..MaxFileClaims :
       \E profiles \in [1..n -> ShardProfiles] :
           /\ adus = Imported(profiles, [adus |-> <<>>, rels |-> <<>>]).adus
           /\ rels = Imported(profiles, [adus |-> <<>>, rels |-> <<>>]).rels
    /\ CACHE_ENABLED \in BOOLEAN
    /\ \E keys \in SUBSET SplitNames :
           claims_cache \in {NoFile, FileWithKeys(ClaimsDict([adus |-> adus, rels |-> rels]),
                                                  "total", keys)}
    /\ \E keys \in SUBSET SplitNames :
           data_cache \in {NoFile} \cup
               {FileWithKeys(dict, DataToken, keys) :
                    dict \in DataDicts([adus |-> adus, rels |-> rels])}
    /\ ret = NoCall
    /\ inflight = Idle

FileNext ==
    \/ get_training_claims
    \/ get_test_claims
    \/ get_benchmark_claims
    \/ get_training_data
    \/ get_test_data
    \/ get_benchmark_data

FileSpec == FileInit /\ [][FileNext]_vars

----------------------------------------------------------------------------
(* Properties of _get_data, checked under PairSpec.                        *)

\* The claims of a split, in id order.
SplitClaims(split) == _get_claims(get_session, "split", split).val

\* Claim c is the target of a relationship from a premise row.
HasPremise(c) ==
    \E r \in DOMAIN rels : rels[r].to = c /\ adus[rels[r].from] = "premise"

\* Claim c is the target of a relationship of that category from a premise row.
HasStance(c, category) ==
    \E r \in DOMAIN rels :
        /\ rels[r].to = c
        /\ adus[rels[r].from] = "premise"
        /\ rels[r].category = category

Returned_get_data == ret.op = "_get_data" /\ ret.err = "none"

\* C7: the three sequences _get_data returns (claims, premises, categories)
\* have the same length, for every split and every store.
C7_PairingLength ==
    Returned_get_data =>
        /\ Len(ret.val.claims) = Len(ret.val.premises)
        /\ Len(ret.val.premises) = Len(ret.val.categories)

\* A call that skipped a claim and emitted another.
C7_Witness ==
    /\ Returned_get_data
    /\ Len(ret.val.claims) >= 2
    /\ Len(ret.val.claims) < Len(SplitClaims(ret.arg))

\* C8: the claims _get_data returns are exactly the claims of the split that
\* have a premise relationship, in the order of the split; every premise it
\* returns is an ADU row of type premise (never a placeholder).
C8_PremiselessExcluded ==
    Returned_get_data =>
        /\ ret.val.claims = SelectSeq(SplitClaims(ret.arg), HasPremise)
        /\ \A i \in DOMAIN ret.val.premises :
               /\ ret.val.premises[i] \in DOMAIN adus
               /\ adus[ret.val.premises[i]] = "premise"

\* A call on a split with a premiseless claim between two claims with premises.
C8_Witness ==
    /\ Returned_get_data
    /\ \E i, j, k \in DOMAIN SplitClaims(ret.arg) :
           /\ i < j /\ j < k
           /\ HasPremise(SplitClaims(ret.arg)[i])
           /\ ~HasPremise(SplitClaims(ret.arg)[j])
           /\ HasPremise(SplitClaims(ret.arg)[k])
    /\ Len(ret.val.claims) >= 2

EveryClaimHasBoth(split) ==
    \A i \in DOMAIN SplitClaims(split) :
        /\ HasStance(SplitClaims(split)[i], "stance_pro")
        /\ HasStance(SplitClaims(split)[i], "stance_con")

\* C9: on a split whose claims all have a stance_pro and a stance_con premise
\* the returned categories alternate along the whole output, and the first
\* is the same value in every call (stance_con).
C9_StanceAlternation ==
    (Returned_get_data /\ EveryClaimHasBoth(ret.arg)) =>
        /\ \A i \in 1..(Len(ret.val.categories) - 1) :
               ret.val.categories[i] # ret.val.categories[i + 1]
        /\ Len(ret.val.categories) >= 1 => ret.val.categories[1] = "stance_con"

\* Such a call with three claims emitted.
C9_Witness ==
    /\ Returned_get_data
    /\ EveryClaimHasBoth(ret.arg)
    /\ Len(ret.val.categories) >= 3

\* C10, as claimed: counting emitted claims from 0, an emitted claim that has
\* a premise of each stance is paired with stance_pro at an even count and
\* with stance_con at an odd count (so the first one with stance_pro).
C10_ParityZeroBased ==
    Returned_get_data =>
        \A i \in DOMAIN ret.val.claims :
            (/\ HasStance(ret.val.claims[i], "stance_pro")
             /\ HasStance(ret.val.claims[i], "stance_con")) =>
                ret.val.categories[i] =
                    (IF (i - 1) % 2 = 0 THEN "stance_pro" ELSE "stance_con")

\* The stance wanted for the k-th emitted claim, counting from 1.
WantedOneBased(k) == IF k % 2 = 0 THEN "stance_pro" ELSE "stance_con"

\* C10, amended: counting emitted claims from 1, the stance wanted for the
\* k-th is stance_con when k is odd and stance_pro when k is even; an emitted
\* claim that has a premise of the wanted stance is paired with that stance
\* (so the first one, when it has both, with stance_con).
C10_ParityOneBased ==
    Returned_get_data =>
        \A k \in DOMAIN ret.val.claims :
            HasStance(ret.val.claims[k], WantedOneBased(k)) =>
                ret.val.categories[k] = WantedOneBased(k)

\* A call whose first two emitted claims each have both stances.
C10_Witness ==
    /\ Returned_get_data
    /\ Len(ret.val.claims) >= 2
    /\ \A k \in 1..2 :
           /\ HasStance(ret.val.claims[k], "stance_pro")
           /\ HasStance(ret.val.claims[k], "stance_con")
    /\ ret.val.categories[1] = "stance_con"
    /\ ret.val.categories[2] = "stance_pro"

\* The positions in the fetched rows of the rows of claim c, and those among
\* them whose category is `category`.
RowsFor(c) == {j \in DOMAIN ret.rows : ret.rows[j][3] = c}
RowsWith(c, category) == {j \in RowsFor(c) : ret.rows[j][2] = category}

\* The least element of a non-empty set of positions.
First(S) == CHOOSE j \in S : \A i \in S : j <= i

\* The position of the row the k-th emitted claim is to be paired with: the
\* first row of the claim with the stance wanted for k, or else its first row.
ChoiceFor(k) ==
    IF RowsWith(ret.val.claims[k], WantedOneBased(k)) # {}
    THEN First(RowsWith(ret.val.claims[k], WantedOneBased(k)))
    ELSE First(RowsFor(ret.val.claims[k]))

\* C17: for an emitted claim none of whose premises has the desired stance
\* (premises of another category, such as support, included) the chosen
\* premise is the claim's first premise in fetch order; when some premise
\* has the desired stance it is the first one in fetch order with it.
C17_FallbackChoice ==
    Returned_get_data =>
        \A k \in DOMAIN ret.val.claims :
            /\ RowsFor(ret.val.claims[k]) # {}
            /\ ret.val.premises[k] = ret.rows[ChoiceFor(k)][1]
            /\ ret.val.categories[k] = ret.rows[ChoiceFor(k)][2]

\* An emitted claim with a support and a stance_con premise where stance_pro
\* was wanted, the stance_con row fetched first and chosen, although the
\* support premise has the smaller id.
C17_Witness ==
    /\ Returned_get_data
    /\ \E k \in DOMAIN ret.val.claims :
           /\ WantedOneBased(k) = "stance_pro"
           /\ RowsWith(ret.val.claims[k], "stance_pro") = {}
           /\ RowsWith(ret.val.claims[k], "support") # {}
           /\ ret.val.categories[k] = "stance_con"
           /\ First(RowsWith(ret.val.claims[k], "stance_con"))
                  < First(RowsWith(ret.val.claims[k], "support"))
           /\ ret.val.premises[k] > ret.rows[First(RowsWith(ret.val.claims[k], "support"))][1]

\* C18: at every index i of a result of _get_data, premises[i] is an ADU of
\* type premise with a relationship to claims[i], and categories[i] is the
\* category of that relationship, whatever stance was wanted.
C18_TruePairing ==
    Returned_get_data =>
        \A i \in DOMAIN ret.val.claims :
            /\ ret.val.premises[i] \in DOMAIN adus
            /\ adus[ret.val.premises[i]] = "premise"
            /\ \E r \in DOMAIN rels :
                   rels[r] = [from     |-> ret.val.premises[i],
                              to       |-> ret.val.claims[i],
                              category |-> ret.val.categories[i]]

\* A result with a pair whose category is not the wanted stance, next to a
\* pair whose category is.
C18_Witness ==
    /\ Returned_get_data
    /\ \E i, j \in DOMAIN ret.val.claims :
           /\ ret.val.categories[i] # WantedOneBased(i)
           /\ ret.val.categories[j] = WantedOneBased(j)

----------------------------------------------------------------------------
(* Properties of the split boundaries, checked under SplitSpec.            *)

ClaimsReaders == {"get_training_claims", "get_test_claims", "get_benchmark_claims"}
DataReaders == {"get_training_data", "get_test_data", "get_benchmark_data"}

ReturnedClaims == ret.op \in ClaimsReaders /\ ret.err = "none"

\* All claims of the store in id order, and their number.
AllClaims == _make_claims_query(get_session)
N == Len(AllClaims)

\* The positions [0, t1), [t1, t2) and [t2, N) of the claims in id order.
Positions(split, t1, t2) ==
    IF split = "training" THEN SubSeq(AllClaims, 1, t1)
    ELSE IF split = "test" THEN SubSeq(AllClaims, t1 + 1, t2)
    ELSE SubSeq(AllClaims, t2 + 1, N)

\* C3, as claimed: the splits are the positions [0, t1), [t1, t2), [t2, N)
\* with t1 = floor(N x 0.8) and t2 = floor(N x 0.9).
C3_SpecBoundaries ==
    ReturnedClaims =>
        ret.val = Positions(ret.arg, (8 * N) \div 10, (9 * N) \div 10)

\* The largest power of two not above n >= 1.
RECURSIVE FloorPow2(_)
FloorPow2(n) == IF n < 2 THEN 1 ELSE 2 * FloorPow2(n \div 2)

\* N = 10 j and the double product N * 0.7 rounds to the double below 7 j:
\* the distance 4 j / 2^53 of the exact product from 7 j is more than half
\* the spacing 2 * FloorPow2(7 j) / 2^53 of the doubles there.
RoundsBelow(n) ==
    /\ n > 0
    /\ n % 10 = 0
    /\ 4 * (n \div 10) > FloorPow2(7 * (n \div 10))

\* C3, amended: the splits are the positions [0, t1), [t1, t2), [t2, N) with
\* t1 = int(N * 0.7) and t2 = int(N * 0.9) in double arithmetic: t2 is
\* floor(9N/10), and t1 is floor(7N/10), less one for the multiples of 10
\* whose product with 0.7 rounds below the integer (N = 90 the first).
C3_CodeBoundaries ==
    ReturnedClaims =>
        ret.val = Positions(ret.arg,
                            (7 * N) \div 10 - (IF RoundsBelow(N) THEN 1 ELSE 0),
                            (9 * N) \div 10)

\* The test split of 90 claims returned: the positions [62, 81).
C3_Witness ==
    /\ ReturnedClaims
    /\ ret.arg = "test"
    /\ N = 90
    /\ Len(ret.val) = 19

\* C4, as claimed: get_training_claims returns the first floor(7N/10) claims,
\* get_test_claims the positions [floor(7N/10), floor(9N/10)) and
\* get_benchmark_claims the positions [floor(9N/10), N), in id order.
C4_SeventyTwentyTen ==
    ReturnedClaims =>
        ret.val = Positions(ret.arg, (7 * N) \div 10, (9 * N) \div 10)

\* C5: for every N the three claim splits are contiguous runs of the claims
\* in id order that follow one another without gap or overlap and make up
\* the whole list, so each claim is in exactly one split, fixed by its
\* position; no split computation fails, N = 0 included.  This holds of the
\* splits as computed and of the splits a reader saved in the cache file.
C5_Partition ==
    /\ \A split \in SplitNames : _get_claims(get_session, "split", split).err = "none"
    /\ SplitClaims("training") \o SplitClaims("test") \o SplitClaims("benchmark")
           = AllClaims
    /\ ret.err \notin {"DatabaseError", "ZeroDivisionError", "ValueError"}
    /\ claims_cache.exists =>
           /\ claims_cache.obj.total = N
           /\ claims_cache.obj.training \o claims_cache.obj.test
                  \o claims_cache.obj.benchmark = AllClaims

\* A reader returned an empty test split between two splits that are not.
C5_Witness ==
    /\ ReturnedClaims
    /\ ret.arg = "test"
    /\ ret.val = <<>>
    /\ claims_cache.exists
    /\ claims_cache.obj.training # <<>>
    /\ claims_cache.obj.benchmark # <<>>

----------------------------------------------------------------------------
(* Properties of the cache layer, checked under Spec.                      *)

\* The values _get_data may return for a split on the store as it is.
PossibleData(split) ==
    {_get_data(get_session, "split", split, rows).val :
        rows \in Fetch(get_session, "split", split)}

\* C1: with the cache enabled, a read that finds a file tagged with another
\* count than the live one (claims were inserted since it was written) does
\* not serve the file: it returns the split computed from the store as it
\* is, and leaves the file tagged with the live count.
C1_CacheFreshness ==
    (CACHE_ENABLED /\ ret.op # "none" /\ ret.stale) =>
        /\ ret.err = "none"
        /\ ~ret.hit
        /\ ret.op \in ClaimsReaders =>
               /\ ret.val = SplitClaims(ret.arg)
               /\ claims_cache.exists /\ claims_cache.obj.total = N
        /\ ret.op \in DataReaders =>
               /\ ret.val = _get_data(get_session, "split", ret.arg, ret.rows).val
               /\ ret.rows \in Fetch(get_session, "split", ret.arg)
               /\ data_cache.exists
               /\ data_cache.obj.db_total_claims_when_cached = N

\* A claims reader met a stale file and returned two claims.
C1_Witness ==
    /\ CACHE_ENABLED
    /\ ret.op \in ClaimsReaders
    /\ ret.stale
    /\ Len(ret.val) = 2

\* C2, as claimed: with CACHE_ENABLED false each of the six readers completes
\* without error, leaves no cache file, and returns what a cache hit returns
\* for the same store: the split computed from it.
C2_BypassEquivalence ==
    (~CACHE_ENABLED /\ ret.op # "none") =>
        /\ ret.err = "none"
        /\ ~claims_cache.exists /\ ~data_cache.exists
        /\ ret.op \in ClaimsReaders => ret.val = SplitClaims(ret.arg)
        /\ ret.op \in DataReaders => ret.val \in PossibleData(ret.arg)

\* C6, as claimed: get_training_data returns sequences, and a second call on
\* the same store returns the same ones, the cache enabled or not.
C6_Determinism ==
    ret.op = "get_training_data" =>
        /\ ret.err = "none"
        /\ \A call \in DataRead("get_training_data", "training", TRUE, "training", FALSE) :
               call.ret.err = "none" /\ call.ret.val = ret.val

\* The claims of the store that have a premise, in id order.
ClaimsWithPremise == SelectSeq(AllClaims, HasPremise)

\* The elements of a sequence.
Range(seq) == {seq[i] : i \in DOMAIN seq}

\* C13, as claimed: on every store the numbers of rows that
\* get_training_data, get_test_data and get_benchmark_data return sum to the
\* number of claims that have a premise, and no claim is in two of the three
\* results.
C13_DataPartition ==
    \A training \in DataRead("get_training_data", "training", TRUE, "training", FALSE),
       test_ \in DataRead("get_test_data", "training", FALSE, "test", FALSE),
       benchmark \in DataRead("get_benchmark_data", "split", "benchmark", "benchmark", TRUE) :
        /\ training.ret.err = "none"
        /\ test_.ret.err = "none"
        /\ benchmark.ret.err = "none"
        /\ Len(training.ret.val.claims) + Len(test_.ret.val.claims)
               + Len(benchmark.ret.val.claims) = Len(ClaimsWithPremise)
        /\ Range(training.ret.val.claims) \cap Range(test_.ret.val.claims) = {}
        /\ Range(training.ret.val.claims) \cap Range(benchmark.ret.val.claims) = {}
        /\ Range(test_.ret.val.claims) \cap Range(benchmark.ret.val.claims) = {}

\* C15, as claimed: with the cache enabled, a value a data reader serves from
\* the data cache is a value _get_data computes from the store as it is at
\* that moment, whatever was inserted since the file was written.
C15_CacheConsistency ==
    (CACHE_ENABLED /\ ret.op \in DataReaders /\ ret.hit) =>
        /\ ret.err = "none"
        /\ ret.val \in PossibleData(ret.arg)

\* The outcomes of a call of any claims reader, and of any data reader, made
\* in the state as it is.
AnyClaimsRead ==
    { ClaimsRead("get_training_claims", "training", TRUE, "training", FALSE),
      ClaimsRead("get_test_claims", "training", FALSE, "test", FALSE),
      ClaimsRead("get_benchmark_claims", "split", "benchmark", "benchmark", TRUE) }

AnyDataRead ==
    DataRead("get_training_data", "training", TRUE, "training", FALSE)
    \cup DataRead("get_test_data", "training", FALSE, "test", FALSE)
    \cup DataRead("get_benchmark_data", "split", "benchmark", "benchmark", TRUE)

ReturnedRead == ret.op \in ClaimsReaders \cup DataReaders

\* C14: a read that finds its cache file there but failing to deserialize
\* does what it does when the file is absent: it surfaces no error,
\* recomputes, overwrites the file and returns the same result.
C14_CorruptRecovery ==
    (ReturnedRead /\ ret.found = "corrupt") =>
        /\ ret.err = "none"
        /\ ~ret.hit
        /\ ret.op \in ClaimsReaders =>
               /\ ret.val = SplitClaims(ret.arg)
               /\ \E absent \in {ClaimsCached(ret.op, ret.arg, ret.arg = "benchmark",
                                               get_session, count_claims(get_session),
                                               _load_cache(NoFile))} :
                      /\ ret.val = absent.ret.val
                      /\ claims_cache = absent.file
        /\ ret.op \in DataReaders =>
               /\ ret.val \in PossibleData(ret.arg)
               /\ \E absent \in DataCached(ret.op, ret.arg, ret.arg = "benchmark",
                                            get_session, count_claims(get_session),
                                            _load_cache(NoFile)) :
                      /\ ret.val = absent.ret.val
                      /\ data_cache = absent.file

\* A data reader met a truncated file and returned a claim with its premise.
C14_Witness ==
    /\ ret.op \in DataReaders
    /\ ret.found = "corrupt"
    /\ ret.err = "none"
    /\ ret.val.claims # <<>>
    /\ data_cache.valid

\* C16: with the cache enabled, a read that finds its file absent, corrupt
\* or tagged with another count than the live one computes the three splits,
\* overwrites the file with them tagged with the live count and returns the
\* requested one of them; a read of any split from that file that follows on
\* the unchanged store is a hit that leaves the file as it is.
C16_EagerRecompute ==
    (/\ CACHE_ENABLED
     /\ ReturnedRead
     /\ ret.found \in {"absent", "corrupt"} \/ ret.stale) =>
        /\ ret.err = "none"
        /\ ~ret.hit
        /\ ret.op \in ClaimsReaders =>
               /\ claims_cache = File([total     |-> N,
                                       training  |-> SplitClaims("training"),
                                       test      |-> SplitClaims("test"),
                                       benchmark |-> SplitClaims("benchmark")])
               /\ ret.val = claims_cache.obj[ret.arg]
               /\ \A next \in AnyClaimsRead :
                      /\ next.ret.hit
                      /\ next.ret.err = "none"
                      /\ next.ret.val = claims_cache.obj[next.ret.arg]
                      /\ next.file = claims_cache
        /\ ret.op \in DataReaders =>
               /\ data_cache.exists /\ data_cache.valid
               /\ DOMAIN data_cache.obj = {DataToken} \cup SplitNames
               /\ data_cache.obj[DataToken] = N
               /\ \A split \in SplitNames : data_cache.obj[split] \in PossibleData(split)
               /\ ret.val = data_cache.obj[ret.arg]
               /\ \A next \in AnyDataRead :
                      /\ next.ret.hit
                      /\ next.ret.err = "none"
                      /\ next.ret.val = data_cache.obj[next.ret.arg]
                      /\ next.file = data_cache

\* get_test_claims found no file and returned an empty test split, having
\* saved a benchmark split that is not empty.
C16_Witness ==
    /\ CACHE_ENABLED
    /\ ret.op = "get_test_claims"
    /\ ret.found = "absent"
    /\ ret.val = <<>>
    /\ claims_cache.exists /\ claims_cache.valid
    /\ claims_cache.obj.benchmark # <<>>

\* C21: no read inserts, updates or deletes anything in the store; a claims
\* reader leaves the data cache file as it is and a data reader the claims
\* cache file, and a read served from the cache writes neither file.  (A
\* step that ends with the outcome of a reader in `ret` is a call of it.)
C21_ReadFrame ==
    [][ret'.op \in ClaimsReaders \cup DataReaders =>
        /\ adus' = adus
        /\ rels' = rels
        /\ ret'.op \in ClaimsReaders => data_cache' = data_cache
        /\ ret'.op \in DataReaders => claims_cache' = claims_cache
        /\ ret'.hit => claims_cache' = claims_cache /\ data_cache' = data_cache]_vars

\* A data reader missed and wrote its file, with the claims cache file there
\* and a relationship in the store.
C21_Witness ==
    /\ ret.op \in DataReaders
    /\ ret.err = "none"
    /\ ~ret.hit
    /\ ret.found = "absent"
    /\ data_cache.exists /\ data_cache.valid
    /\ claims_cache.exists /\ claims_cache.valid
    /\ rels # <<>>

----------------------------------------------------------------------------
(* Properties of get_sharded_training_data, checked under ShardSpec.       *)

ReturnedShards == ret.op = "get_sharded_training_data"

\* The number of rows of the training data of the store as it is: the claims
\* of the training split that have a premise.
TrainingRows == Len(SelectSeq(SplitClaims("training"), HasPremise))

\* The rows [i * m, (i + 1) * m) of the three sequences, i counted from 0.
RowsOfShard(data, i, m) ==
    [claims     |-> SubSeq(data.claims, i * m + 1, (i + 1) * m),
     premises   |-> SubSeq(data.premises, i * m + 1, (i + 1) * m),
     categories |-> SubSeq(data.categories, i * m + 1, (i + 1) * m)]

\* C11, as claimed: for max_per_shard > 0, num_shards > 0 and a training
\* split of at least max_per_shard * num_shards rows, the call returns
\* num_shards tuples, the i-th holding the rows [i * max_per_shard,
\* (i + 1) * max_per_shard) of the training claims, premises and categories.
C11_ShardingExactness ==
    (/\ ReturnedShards
     /\ ret.arg.max_per_shard > 0
     /\ ret.arg.num_shards > 0
     /\ TrainingRows >= ret.arg.max_per_shard * ret.arg.num_shards) =>
        /\ ret.err = "none"
        /\ Len(ret.val) = ret.arg.num_shards
        /\ \E data \in PossibleData("training") :
               \A i \in 0..(ret.arg.num_shards - 1) :
                   ret.val[i + 1] = RowsOfShard(data, i, ret.arg.max_per_shard)

\* C12, as claimed: with max_per_shard <= 0 or num_shards <= 0 the call fails
\* with the argument error (ValueError) and leaves the cache file as it was;
\* with positive arguments and fewer than max_per_shard * num_shards training
\* rows it fails with the insufficient-data error (ValueError); a failing
\* call returns no shard.
C12_ShardingErrors ==
    [][ret'.op = "get_sharded_training_data" =>
        /\ (ret'.arg.max_per_shard <= 0 \/ ret'.arg.num_shards <= 0) =>
               /\ ret'.err = "ValueError"
               /\ data_cache' = data_cache
        /\ (/\ ret'.arg.max_per_shard > 0
            /\ ret'.arg.num_shards > 0
            /\ TrainingRows < ret'.arg.max_per_shard * ret'.arg.num_shards) =>
               ret'.err = "ValueError"
        /\ ret'.err # "none" => ret'.val = <<>>]_vars

----------------------------------------------------------------------------
(* Properties of the cache file under concurrency, checked under StepSpec. *)

\* The first `total` claims of the store: the claims there were when the
\* store held `total` of them (ids grow, and nothing is deleted).
FirstClaims(total) == SubSeq(AllClaims, 1, Min(total, N))

\* C19, as claimed: a cache file written by a read holds three splits that
\* were all computed from one claim count, the token stored with them, also
\* when claims are inserted between the steps of the read.
C19_Snapshot ==
    (claims_cache.exists /\ claims_cache.valid) =>
        \A split \in SplitNames :
            claims_cache.obj[split] =
                SelectSplit(FirstClaims(claims_cache.obj.total), split).val

\* C20, as claimed: at every point of a write the cache file is a complete
\* snapshot, the previous one or the new one, never an empty or partial file.
C20_AtomicOverwrite ==
    claims_cache.exists => claims_cache.valid

----------------------------------------------------------------------------
(* Properties of incomplete cache files, checked under FileSpec.           *)

\* The file unpickles to a dict tagged with the live count that has no entry
\* for `split`.
Incomplete(file, token, split) ==
    /\ file.exists /\ file.valid
    /\ token \in DOMAIN file.obj
    /\ file.obj[token] = N
    /\ split \notin DOMAIN file.obj

\* C22, as claimed: with the cache enabled, each of the six readers treats a
\* file that is tagged with the live count and lacks the entry of the
\* requested split as stale: the call raises nothing, is no hit, returns the
\* split computed from the store and leaves a file with the three splits.
C22_IncompleteEntry ==
    CACHE_ENABLED =>
        /\ \A r \in ClaimsReaderArgs :
               Incomplete(claims_cache, "total", r[4]) =>
                   \A call \in {ClaimsRead(r[1], r[2], r[3], r[4], r[5])} :
                       /\ call.ret.err = "none"
                       /\ ~call.ret.hit
                       /\ call.ret.val = SplitClaims(r[4])
                       /\ call.file = File(ClaimsDict(get_session))
        /\ \A r \in DataReaderArgs :
               Incomplete(data_cache, DataToken, r[4]) =>
                   \A call \in DataRead(r[1], r[2], r[3], r[4], r[5]) :
                       /\ call.ret.err = "none"
                       /\ ~call.ret.hit
                       /\ call.ret.val \in PossibleData(r[4])
                       /\ call.file.obj \in DataDicts(get_session)

====
